---- MODULE Spec2Model ----
(***************************************************************************)
(* BoundingSpaceN<T, D> of src/src/lib.rs: an axis-aligned bounding region *)
(* given by two corner points, with its constructors, the containment      *)
(* test and the three expansion operations.                                *)
(*                                                                         *)
(* A scalar of the field T (f64 in the crate's tests) is a record          *)
(* [nan, v]: either NaN or an ordered number.  The numbers are the ones    *)
(* the crate's tests use (-1.0, 0.0, 1.0); infinities are ordered like any *)
(* other number by every operation used here and are not singled out;      *)
(* -0.0 and 0.0 are one number, as they are for the == of f64.             *)
(* A point is a function from 1..d to scalars, a region a record           *)
(* [lower, upper] of two points.                                           *)
(***************************************************************************)
EXTENDS Integers, Sequences, FiniteSets, TLC

\* The dimensions of the crate's aliases BoundingSpace1, BoundingSpace2 and
\* BoundingSpace3.
U1 == 1
U2 == 2
U3 == 3

\* Longest run of expand calls explored after a construction.
MaxOps == 2

\* Single calls are explored in every dimension the crate names, runs of
\* expand calls in dimensions 1 and 2.
Dims == {U1, U2, U3}

SeqDims == {U1, U2}

NaN == [nan |-> TRUE, v |-> 0]

Num(n) == [nan |-> FALSE, v |-> n]

\* T::zero()
Zero == Num(0)

Nums == {-1, 0, 1}

Val == {NaN} \cup {Num(n) : n \in Nums}

Points(d) == [1..d -> Val]

(***************************************************************************)
(* Scalar operations of T = f64.                                           *)
(***************************************************************************)
\* a > b of PartialOrd: false as soon as one side is NaN.
Gt(a, b) == ~a.nan /\ ~b.nan /\ a.v > b.v

\* a < b of PartialOrd: false as soon as one side is NaN.
Lt(a, b) == ~a.nan /\ ~b.nan /\ a.v < b.v

\* A minimum that lets NaN through.
min_propagating(a, b) ==
    IF a.nan \/ b.nan THEN NaN ELSE IF b.v < a.v THEN b ELSE a

\* A minimum by one comparison: the receiver wins whenever the test fails.
min_by_compare(a, b) == IF Lt(b, a) THEN b ELSE a

\* a.min(b): a NaN operand is ignored, NaN only when both are NaN.
min(a, b) == IF a.nan THEN b ELSE IF b.nan THEN a ELSE IF b.v < a.v THEN b ELSE a

\* The maximum written with the minimum's comparison.
max_as_min(a, b) == min(a, b)

\* a.max(b): a NaN operand is ignored, NaN only when both are NaN.
max(a, b) == IF a.nan THEN b ELSE IF b.nan THEN a ELSE IF b.v > a.v THEN b ELSE a

\* OVector::repeat(v)
repeat(d, v) == [i \in 1..d |-> v]

(***************************************************************************)
(* Constructors.                                                           *)
(***************************************************************************)
new(l, u) == [lower |-> l, upper |-> u]

from_point(point) == new(point, point)

from_value(d, value) == [lower |-> repeat(d, value), upper |-> repeat(d, value)]

from_values(d, l, u) == [lower |-> repeat(d, l), upper |-> repeat(d, u)]

default(d) == [lower |-> repeat(d, Zero), upper |-> repeat(d, Zero)]

(***************************************************************************)
(* Query and mutation, as functions of the region and the point.           *)
(***************************************************************************)
\* The containment test without its second scan.
contains_lower_only(r, point) ==
    IF \E i \in DOMAIN r.lower : Gt(r.lower[i], point[i]) THEN FALSE ELSE TRUE

\* Two scans, each returning false at the first failing component.
contains(r, point) ==
    IF \E i \in DOMAIN r.lower : Gt(r.lower[i], point[i]) THEN FALSE
    ELSE IF \E i \in DOMAIN r.upper : Lt(r.upper[i], point[i]) THEN FALSE
    ELSE TRUE

expand_lower(r, point) ==
    [r EXCEPT !.lower = [i \in DOMAIN r.lower |-> min(point[i], r.lower[i])]]

\* The upper expansion writing its result into the lower corner.
expand_upper_on_lower(r, point) ==
    [r EXCEPT !.lower = [i \in DOMAIN r.upper |-> max(point[i], r.upper[i])]]

expand_upper(r, point) ==
    [r EXCEPT !.upper = [i \in DOMAIN r.upper |-> max(point[i], r.upper[i])]]

\* The expansion without its second half.
expand_lower_only(r, point) == expand_lower(r, point)

expand(r, point) == expand_upper(expand_lower(r, point), point)

(***************************************************************************)
(* State: one region (lower, upper) of dimension dim, with the record of   *)
(* how it was built (ctor, seed), of the calls made on it since (hist),    *)
(* of the region before the last call (prev) and of the value the last     *)
(* contains call returned (ret).                                           *)
(***************************************************************************)
VARIABLES dim, lower, upper, ctor, seed, hist, prev, ret

vars == <<dim, lower, upper, ctor, seed, hist, prev, ret>>

self == [lower |-> lower, upper |-> upper]

Built(d) ==
    {[ctor |-> "new", r |-> new(l, u)] : l \in Points(d), u \in Points(d)}
    \cup {[ctor |-> "from_point", r |-> from_point(p)] : p \in Points(d)}
    \cup {[ctor |-> "from_value", r |-> from_value(d, v)] : v \in Val}
    \cup {[ctor |-> "from_values", r |-> from_values(d, l, u)] : l \in Val, u \in Val}
    \cup {[ctor |-> "default", r |-> default(d)]}

Build(D) ==
    \E d \in D : \E b \in Built(d) :
        /\ dim = d
        /\ lower = b.r.lower
        /\ upper = b.r.upper
        /\ ctor = b.ctor
        /\ seed = b.r
        /\ prev = b.r
        /\ hist = <<>>
        /\ ret = FALSE

Init == Build(Dims)

InitSeq == Build(SeqDims)

Call(op, point) == [op |-> op, p |-> point]

Contains(point) ==
    /\ ret' = contains(self, point)
    /\ prev' = self
    /\ hist' = Append(hist, Call("contains", point))
    /\ UNCHANGED <<dim, lower, upper, ctor, seed>>

ExpandLower(point) ==
    /\ lower' = expand_lower(self, point).lower
    /\ upper' = expand_lower(self, point).upper
    /\ prev' = self
    /\ hist' = Append(hist, Call("expand_lower", point))
    /\ UNCHANGED <<dim, ctor, seed, ret>>

ExpandUpper(point) ==
    /\ lower' = expand_upper(self, point).lower
    /\ upper' = expand_upper(self, point).upper
    /\ prev' = self
    /\ hist' = Append(hist, Call("expand_upper", point))
    /\ UNCHANGED <<dim, ctor, seed, ret>>

Expand(point) ==
    /\ lower' = expand(self, point).lower
    /\ upper' = expand(self, point).upper
    /\ prev' = self
    /\ hist' = Append(hist, Call("expand", point))
    /\ UNCHANGED <<dim, ctor, seed, ret>>

\* One call of any operation on a freshly built region.
Next ==
    \/ hist = <<>> /\ \E point \in Points(dim) : Contains(point)
    \/ hist = <<>> /\ \E point \in Points(dim) : ExpandLower(point)
    \/ hist = <<>> /\ \E point \in Points(dim) : ExpandUpper(point)
    \/ hist = <<>> /\ \E point \in Points(dim) : Expand(point)

Spec == Init /\ [][Next]_vars

\* A run of expand calls on a built region.
NextSeq == Len(hist) < MaxOps /\ \E point \in Points(dim) : Expand(point)

SpecSeq == InitSeq /\ [][NextSeq]_vars

(***************************************************************************)
(* Vocabulary of the properties.                                           *)
(***************************************************************************)
NoNaN(point) == \A i \in DOMAIN point : ~point[i].nan

HasNaN(point) == \E i \in DOMAIN point : point[i].nan

\* The last call made on the region (when one was made).
last == hist[Len(hist)]

Called(op) == Len(hist) >= 1 /\ last.op = op

\* Every call so far was given a point without NaN.
FinitePoints == \A k \in 1..Len(hist) : NoNaN(hist[k].p)

\* lower[i] <= upper[i] as numbers.
Ordered(r) ==
    \A i \in DOMAIN r.lower :
        ~r.lower[i].nan /\ ~r.upper[i].nan /\ r.lower[i].v <= r.upper[i].v

\* The region a run of expand calls h makes of r.
RECURSIVE Replay(_, _)
Replay(r, h) == IF h = <<>> THEN r ELSE Replay(expand(r, Head(h).p), Tail(h))

\* h with its calls k and k+1 exchanged.
Swap(h, k) ==
    [j \in 1..Len(h) |-> IF j = k THEN h[k + 1] ELSE IF j = k + 1 THEN h[k] ELSE h[j]]

\* h without its call k.
Remove(h, k) == SubSeq(h, 1, k - 1) \o SubSeq(h, k + 1, Len(h))

MinOf(S) == CHOOSE x \in S : \A y \in S : x <= y

MaxOf(S) == CHOOSE x \in S : \A y \in S : x >= y

\* Component i of the seed point and of every point expanded since.
Seen(i) == {seed.lower[i].v} \cup {hist[k].p[i].v : k \in 1..Len(hist)}

(***************************************************************************)
(* C1. A region built by from_value(NaN) and expanded once by a point      *)
(* without NaN has both corners equal to that point.                       *)
(***************************************************************************)
C1_NaNSeedRecovers ==
    (/\ ctor = "from_value"
     /\ seed = from_value(dim, NaN)
     /\ Len(hist) = 1
     /\ Called("expand")
     /\ NoNaN(last.p))
    => (lower = last.p /\ upper = last.p)

C1_Witness ==
    /\ ctor = "from_value"
    /\ seed = from_value(dim, NaN)
    /\ dim = U3
    /\ Len(hist) = 1
    /\ Called("expand")
    /\ NoNaN(last.p)
    /\ last.p[1] # last.p[2]
    /\ lower = last.p
    /\ upper = last.p

(***************************************************************************)
(* C2. contains(point) returns false whenever a component of lower, of     *)
(* upper or of point is NaN.  The code returns true there: both of its     *)
(* tests (l > p, u < p) are false on NaN and neither scan returns.         *)
(***************************************************************************)
C2_ContainsFalseOnNaN ==
    (Called("contains") /\ (HasNaN(lower) \/ HasNaN(upper) \/ HasNaN(last.p)))
    => (ret = FALSE)

(***************************************************************************)
(* C3. On a region and a point without NaN, contains(point) is true        *)
(* exactly when lower[i] <= point[i] <= upper[i] for every component i.    *)
(***************************************************************************)
C3_ClosedInterval ==
    (Called("contains") /\ NoNaN(lower) /\ NoNaN(upper) /\ NoNaN(last.p))
    => (ret = (\A i \in 1..dim :
                  lower[i].v <= last.p[i].v /\ last.p[i].v <= upper[i].v))

\* The upper corner of a region that is no single point is found inside.
C3_Witness ==
    /\ Called("contains")
    /\ NoNaN(lower) /\ NoNaN(upper)
    /\ dim = U2
    /\ Ordered(self)
    /\ lower[1] # upper[1]
    /\ lower[2] # upper[2]
    /\ last.p = upper
    /\ ret = TRUE

(***************************************************************************)
(* C4. expand(point) with a point the region contained before the call     *)
(* leaves lower and upper unchanged.  Fails on the code where contains     *)
(* answers true on a NaN corner (C2).                                      *)
(***************************************************************************)
C4_ExpandInsideIsIdentity ==
    (Called("expand") /\ contains(prev, last.p))
    => (lower = prev.lower /\ upper = prev.upper)

(***************************************************************************)
(* C5. After one or more expand calls with points without NaN, on any      *)
(* region whatsoever, lower[i] <= upper[i] for every component i.          *)
(***************************************************************************)
C5_OrderedCorners ==
    (Len(hist) >= 1 /\ FinitePoints) => Ordered(self)

\* An inverted seed, repaired and still ordered after a second expand.
C5_Witness ==
    /\ Len(hist) >= 2
    /\ FinitePoints
    /\ dim = U2
    /\ Gt(seed.lower[1], seed.upper[1])
    /\ seed.lower[2].nan
    /\ Ordered(prev)
    /\ Ordered(self)

(***************************************************************************)
(* C6. From from_point(p0), after expand(p1), ..., expand(pk) with points  *)
(* without NaN, lower[i] is the least and upper[i] the greatest of         *)
(* p0[i], ..., pk[i]; every point given so far is contained, lower did not *)
(* increase and upper did not decrease in the last call.                   *)
(***************************************************************************)
C6_MinimalEnclosure ==
    (seed.lower = seed.upper /\ NoNaN(seed.lower) /\ FinitePoints)
    => /\ \A i \in 1..dim :
            /\ lower[i] = Num(MinOf(Seen(i)))
            /\ upper[i] = Num(MaxOf(Seen(i)))
            /\ lower[i].v <= prev.lower[i].v
            /\ upper[i].v >= prev.upper[i].v
       /\ contains(self, seed.lower)
       /\ \A k \in 1..Len(hist) : contains(self, hist[k].p)

\* from_value(0.0) expanded by 1.0 then by -1.0, in one dimension.
C6_Witness ==
    /\ dim = U1
    /\ ctor = "from_value"
    /\ seed = from_value(U1, Zero)
    /\ Len(hist) = 2
    /\ hist[1].p = repeat(U1, Num(1))
    /\ hist[2].p = repeat(U1, Num(-1))
    /\ prev = new(repeat(U1, Zero), repeat(U1, Num(1)))
    /\ self = new(repeat(U1, Num(-1)), repeat(U1, Num(1)))

(***************************************************************************)
(* C7. default() has every component of both corners exactly zero, in      *)
(* every dimension, so it is not inverted, contains the origin and no      *)
(* other point.  The corners are zero on the code, but contains answers    *)
(* true on a point with a NaN component (C2), which is another point.      *)
(***************************************************************************)
C7_DefaultIsOrigin ==
    (ctor = "default")
    => /\ seed.lower = [i \in 1..dim |-> Zero]
       /\ seed.upper = [i \in 1..dim |-> Zero]
       /\ Ordered(seed)
       /\ Called("contains") => (ret = (last.p = [i \in 1..dim |-> Zero]))

(***************************************************************************)
(* C8. expand_lower leaves upper unchanged, expand_upper leaves lower      *)
(* unchanged, and expand gives what the two halves give in either order.   *)
(***************************************************************************)
C8_DisjointHalves ==
    /\ Called("expand_lower") => upper = prev.upper
    /\ Called("expand_upper") => lower = prev.lower
    /\ Called("expand")
        => /\ self = expand_upper(expand_lower(prev, last.p), last.p)
           /\ self = expand_lower(expand_upper(prev, last.p), last.p)
           /\ lower = expand_lower(prev, last.p).lower
           /\ upper = expand_upper(prev, last.p).upper

\* An expand that moved both corners.
C8_Witness ==
    /\ Called("expand")
    /\ dim = U2
    /\ lower # prev.lower
    /\ upper # prev.upper
    /\ self = expand_lower(expand_upper(prev, last.p), last.p)

(***************************************************************************)
(* C9. The region after a run of expand calls does not depend on the       *)
(* order of the points, nor on how often a point was given: exchanging two *)
(* neighbouring calls, or dropping the repetition of a point, gives the    *)
(* same lower and upper.  NaN seeds and NaN points included.               *)
(***************************************************************************)
C9_OrderIndependent ==
    /\ \A k \in 1..(Len(hist) - 1) : Replay(seed, Swap(hist, k)) = self
    /\ \A j \in 1..Len(hist) : \A k \in (j + 1)..Len(hist) :
            hist[j].p = hist[k].p => Replay(seed, Remove(hist, k)) = self

\* Two different points on a seed with a NaN corner, each moving the region.
C9_Witness ==
    /\ Len(hist) = 2
    /\ dim = U2
    /\ HasNaN(seed.lower)
    /\ HasNaN(hist[1].p)
    /\ hist[1].p # hist[2].p
    /\ prev # seed
    /\ self # prev
    /\ Replay(seed, <<hist[2], hist[1]>>) = self

(***************************************************************************)
(* C10. A NaN component of the point leaves that component of lower and    *)
(* of upper unchanged, and a component of a corner that is a number stays  *)
(* a number through any run of expand calls, whatever the points.          *)
(***************************************************************************)
C10_NaNNeverEnters ==
    /\ Len(hist) >= 1
        => \A i \in 1..dim :
            /\ last.p[i].nan => (lower[i] = prev.lower[i] /\ upper[i] = prev.upper[i])
            /\ ~prev.lower[i].nan => ~lower[i].nan
            /\ ~prev.upper[i].nan => ~upper[i].nan
    /\ \A i \in 1..dim :
            /\ ~seed.lower[i].nan => ~lower[i].nan
            /\ ~seed.upper[i].nan => ~upper[i].nan

\* A point with a NaN component given to a region with numbers there.
C10_Witness ==
    /\ Len(hist) = 2
    /\ dim = U2
    /\ last.p[1].nan
    /\ ~last.p[2].nan
    /\ NoNaN(prev.lower) /\ NoNaN(prev.upper)
    /\ lower[1] = prev.lower[1]
    /\ upper[1] = prev.upper[1]
    /\ lower[2] # prev.lower[2]

====
